---------------------------- MODULE Spec2Model ----------------------------
(***************************************************************************)
(* A model of hope-proto (src/lib/hope_proto/hope_proto.h) together with   *)
(* the only stream the repository ships, mock_stream                       *)
(* (src/test/mock_stream.h).                                               *)
(*                                                                         *)
(* An argument object is a record [cls, name, type, val]: cls is the       *)
(* concrete C++ class (what dynamic_cast sees), type is the member         *)
(* argument_type, val the payload member.  The stream is the sequence of   *)
(* the unread bytes of mock_stream::stream_impl, every byte in 0..255.     *)
(*                                                                         *)
(* Widths.  Tags, int32_t, uint64_t, double and size_t take the number of  *)
(* bytes they take on the LP64 target the code is built for.  The two      *)
(* narrowing casts of a container size, (uint16_t)val.size() and           *)
(* uint32_t(m_blob.size()), are kept as reductions modulo U16Mod and       *)
(* U32Mod; these two moduli are scaled down from 2^16 and 2^32 so that a   *)
(* string or a blob long enough to wrap the prefix fits in a state.        *)
(* Integers of the model are below 2^31; a decoded unsigned field that     *)
(* does not fit is OutOfRange.                                             *)
(***************************************************************************)
EXTENDS Integers, Sequences, FiniteSets, TLC

(***************************************************************************)
(* Bounds of the model.                                                    *)
(***************************************************************************)
\* Scaled modulus of uint16_t (the length prefix of a string).
U16Mod == 4
\* Scaled modulus of uint32_t (the length prefix of a blob).
U32Mod == 6
\* Longest name of an argument.
MaxNameLen == 5
\* Longest string payload.
MaxStrLen == 4
\* Longest array of scalars.
MaxArrayLen == 2
\* Most children of a struct of the serialization inputs.
MaxChildren == 2
\* Objects of the heap used by the struct operations.
MaxObjs == 3
\* Most get() calls on one struct_builder.
MaxGets == 2
\* Most arguments written back to back to one stream.
MaxBatch == 2
\* Threads that make their first serialize call concurrently.
NumThreads == 2

(***************************************************************************)
(* e_argument_type (hope_proto.h:22-32): the enumerators' ordinals.        *)
(***************************************************************************)
T_int32 == 0
T_uint64 == 1
T_float64 == 2
T_string == 3
T_array == 4
T_struct_value == 5
T_file == 6
T_blob == 7
T_count == 8

\* sizeof of the fixed-width types mock_stream copies raw.
SizeofTag == 1
SizeofInt32 == 4
SizeofUint64 == 8
SizeofDouble == 8
SizeofSizeT == 8
SizeofUint16 == 2
SizeofUint32 == 4

Byte == 0..255

(***************************************************************************)
(* Raw copies of trivial values (mock_stream::write(const TValue&) and     *)
(* mock_stream::read(TValue&)): the object representation, little endian,  *)
(* two's complement.  \div and % round towards minus infinity, so a        *)
(* negative value yields its two's complement bytes.                       *)
(***************************************************************************)
RECURSIVE ToBytes(_, _)
ToBytes(v, n) ==
    IF n = 0 THEN <<>> ELSE <<v % 256>> \o ToBytes(v \div 256, n - 1)

\* An unsigned field whose value is below 2^31.
Representable(b) ==
    \A i \in 1..Len(b) : (i = 4 => b[i] < 128) /\ (i > 4 => b[i] = 0)

OutOfRange == -1

RECURSIVE FromBytesRec(_)
FromBytesRec(b) ==
    IF b = <<>> THEN 0 ELSE b[1] + 256 * FromBytesRec(Tail(b))

\* The unsigned value of a field, OutOfRange when it is 2^31 or more.
Unsigned(b) ==
    IF Representable(b) THEN FromBytesRec(b) ELSE OutOfRange

RECURSIVE SignedRec(_)
SignedRec(b) ==
    IF Len(b) = 1
    THEN (IF b[1] >= 128 THEN b[1] - 256 ELSE b[1])
    ELSE b[1] + 256 * SignedRec(Tail(b))

\* The value of an int32_t field.
Signed(b) == SignedRec(b)


(***************************************************************************)
(* Concrete classes and their payload types.                               *)
(***************************************************************************)
GenericClasses == {"int32", "uint64", "float64", "string"}
ArrayClasses ==
    {"array<int32_t>", "array<uint64_t>", "array<double>",
     "array<std::string>", "array<argument_struct*>"}

\* The template parameter TValue of argument_generic / array.
TValueOf(cls) ==
    CASE cls = "int32" -> "int32_t"
      [] cls = "uint64" -> "uint64_t"
      [] cls = "float64" -> "double"
      [] cls = "string" -> "std::string"
      [] cls = "array<int32_t>" -> "int32_t"
      [] cls = "array<uint64_t>" -> "uint64_t"
      [] cls = "array<double>" -> "double"
      [] cls = "array<std::string>" -> "std::string"
      [] cls = "array<argument_struct*>" -> "argument_struct*"

\* The type of the member get_value_internal() points at.
StoredType(cls) ==
    CASE cls \in GenericClasses -> TValueOf(cls)
      [] cls = "argument_blob" -> "std::vector<uint8_t>"
      [] cls = "argument_struct" -> "std::vector<argument*>"
      [] cls = "array<int32_t>" -> "std::vector<int32_t>"
      [] cls = "array<uint64_t>" -> "std::vector<uint64_t>"
      [] cls = "array<double>" -> "std::vector<double>"
      [] cls = "array<std::string>" -> "std::vector<std::string>"
      [] cls = "array<argument_struct*>" -> "std::vector<argument_struct*>"

\* The Type template argument / the tag the constructor stores.
TypeOfClass(cls) ==
    CASE cls = "int32" -> T_int32
      [] cls = "uint64" -> T_uint64
      [] cls = "float64" -> T_float64
      [] cls = "string" -> T_string
      [] cls = "argument_blob" -> T_blob
      [] cls = "argument_struct" -> T_struct_value
      [] cls \in ArrayClasses -> T_array

\* get_type() without its branch for double.
get_type_without_double(tvalue) ==
    CASE tvalue = "int32_t" -> T_int32
      [] tvalue = "uint64_t" -> T_uint64
      [] tvalue = "std::string" -> T_string
      [] OTHER -> T_count

\* array::get_type(): std::is_base_of_v<argument, TValue> is false for the
\* pointer type argument_struct*, so that TValue falls through to count.
get_type(tvalue) ==
    CASE tvalue = "int32_t" -> T_int32
      [] tvalue = "uint64_t" -> T_uint64
      [] tvalue = "std::string" -> T_string
      [] tvalue = "double" -> T_float64
      [] OTHER -> T_count

\* An object as its constructor leaves it.
Arg(cls, name, val) ==
    [cls |-> cls, name |-> name, type |-> TypeOfClass(cls), val |-> val]

(***************************************************************************)
(* Writing.  Every stream.write(x) call is one record: the static type of  *)
(* x and the bytes that reach stream_impl.                                 *)
(***************************************************************************)
Call(t, b) == [t |-> t, b |-> b]

RECURSIVE Flatten(_)
Flatten(ss) ==
    IF ss = <<>> THEN <<>> ELSE Head(ss) \o Flatten(Tail(ss))

\* The bytes of a sequence of calls, in call order.
CallBytes(calls) == Flatten([i \in 1..Len(calls) |-> calls[i].b])

\* mock_stream::write<std::string>: the size cast to uint16_t, then all
\* val.size() bytes.
stream_write_string(val) ==
    ToBytes(Len(val) % U16Mod, SizeofUint16) \o val

\* stream.write(v) for a value of type tvalue.
stream_write(tvalue, v) ==
    CASE tvalue = "int32_t" -> Call(tvalue, ToBytes(v, SizeofInt32))
      [] tvalue = "uint64_t" -> Call(tvalue, ToBytes(v, SizeofUint64))
      [] tvalue = "double" -> Call(tvalue, v)
      [] tvalue = "std::string" -> Call(tvalue, stream_write_string(v))

\* argument_blob::write_value.
blob_write_value(a) ==
    << Call("uint32_t", ToBytes(Len(a.val) % U32Mod, SizeofUint32)),
       Call("bytes", a.val) >>

\* argument_generic::write_value.
generic_write_value(a) == << stream_write(TValueOf(a.cls), a.val) >>

RECURSIVE write(_)
RECURSIVE write_value(_)

\* argument_struct::write_values.
write_values(values) ==
    << Call("size_t", ToBytes(Len(values), SizeofSizeT)) >>
    \o Flatten([i \in 1..Len(values) |-> write(values[i])])

\* array::write_value.
array_write_value(a) ==
    << Call("size_t", ToBytes(Len(a.val), SizeofSizeT)) >>
    \o Flatten([i \in 1..Len(a.val) |->
                  IF TValueOf(a.cls) = "argument_struct*"
                  THEN write_value(a.val[i])
                  ELSE << stream_write(TValueOf(a.cls), a.val[i]) >>])

\* The virtual write_value.
write_value(a) ==
    CASE a.cls \in GenericClasses -> generic_write_value(a)
      [] a.cls = "argument_blob" -> blob_write_value(a)
      [] a.cls = "argument_struct" -> write_values(a.val)
      [] a.cls \in ArrayClasses -> array_write_value(a)

\* argument::write.
argument_write(a) ==
    << Call("e_argument_type", ToBytes(a.type, SizeofTag)),
       Call("std::string", stream_write_string(a.name)) >>
    \o write_value(a)

\* array::write with the element-type tag written after the name.
array_write_tag_after_name(a) ==
    << Call("e_argument_type", ToBytes(a.type, SizeofTag)),
       Call("std::string", stream_write_string(a.name)),
       Call("e_argument_type", ToBytes(get_type(TValueOf(a.cls)), SizeofTag)) >>
    \o write_value(a)

\* array::write.
array_write(a) ==
    << Call("e_argument_type", ToBytes(a.type, SizeofTag)),
       Call("e_argument_type", ToBytes(get_type(TValueOf(a.cls)), SizeofTag)),
       Call("std::string", stream_write_string(a.name)) >>
    \o write_value(a)

\* The virtual write.
write(a) ==
    IF a.cls \in ArrayClasses THEN array_write(a) ELSE argument_write(a)

(***************************************************************************)
(* Reading.  A read takes the stream and yields a record with              *)
(*   st = "returned":   the field was read; rest is the stream after it;   *)
(*   st = "short_read": stream_impl ended inside the field.                *)
(*        mock_stream::read returns the requested length all the same and  *)
(*        no caller looks at it, so the code goes on with bytes that were  *)
(*        never read (indeterminate, or the zero fill of a resize).  The   *)
(*        model stops at this point: "short_read" stands for every         *)
(*        continuation from indeterminate bytes.                           *)
(* serialize has three further outcomes, described where they arise.       *)
(***************************************************************************)
ShortRead == [st |-> "short_read"]

\* mock_stream::read(void*, length).
stream_read_raw(s, n) ==
    IF Len(s) >= n
    THEN [st |-> "returned", v |-> SubSeq(s, 1, n), rest |-> SubSeq(s, n + 1, Len(s))]
    ELSE ShortRead

\* An unsigned count or size field of n bytes; a value of 2^31 or more is
\* read as OutOfRange.
stream_read_unsigned(s, n) ==
    LET r == stream_read_raw(s, n)
    IN  IF r.st = "returned" THEN [r EXCEPT !.v = Unsigned(r.v)] ELSE r

\* mock_stream::read<std::string>(val): val is resized and filled only
\* when the size read is positive; cur is the content val had before.
stream_read_string(s, cur) ==
    LET size == stream_read_unsigned(s, SizeofUint16)
    IN  IF size.st # "returned" THEN size
        ELSE IF size.v > 0 THEN stream_read_raw(size.rest, size.v)
        ELSE [st |-> "returned", v |-> cur, rest |-> size.rest]

\* stream.read(val) / stream.read<TValue>() for a value of type tvalue.
stream_read(tvalue, s) ==
    CASE tvalue = "int32_t" ->
           LET r == stream_read_raw(s, SizeofInt32)
           IN  IF r.st = "returned" THEN [r EXCEPT !.v = Signed(r.v)] ELSE r
      [] tvalue = "uint64_t" -> stream_read_unsigned(s, SizeofUint64)
      [] tvalue = "double" -> stream_read_raw(s, SizeofDouble)
      [] tvalue = "std::string" -> stream_read_string(s, <<>>)

\* The number of iterations of the loop of read_values a count stands for:
\* a count beyond the bytes left cannot be completed (every child reads at
\* least its tag byte first), so it is cut to one more than the bytes left.
LoopCount(count, s) ==
    IF count = OutOfRange \/ count > Len(s) THEN Len(s) + 1 ELSE count

\* Reads n trivial elements of type tvalue (the loop of array::read_value).
RECURSIVE read_elements(_, _, _, _)
read_elements(tvalue, s, n, acc) ==
    IF n = 0 THEN [st |-> "returned", v |-> acc, rest |-> s]
    ELSE LET r == stream_read(tvalue, s)
         IN  IF r.st # "returned" THEN r
             ELSE read_elements(tvalue, r.rest, n - 1, Append(acc, r.v))

(***************************************************************************)
(* The registry factory_impl of serialize: a function from the tags that   *)
(* have an entry to what the entry constructs.  "function{}" is the empty  *)
(* std::function that factory_impl[type] inserts for a tag with no entry.  *)
(***************************************************************************)
EmptyRegistry == << >>

\* The registration with the constructors of uint64 and float64 swapped.
RegisteredTypes_swapped ==
    (T_int32 :> "int32") @@ (T_float64 :> "uint64") @@ (T_string :> "string")
    @@ (T_uint64 :> "float64") @@ (T_struct_value :> "argument_struct")
    @@ (T_blob :> "argument_blob") @@ (T_array :> "array")

RegisteredTypes ==
    (T_int32 :> "int32") @@ (T_float64 :> "float64") @@ (T_string :> "string")
    @@ (T_uint64 :> "uint64") @@ (T_struct_value :> "argument_struct")
    @@ (T_blob :> "argument_blob") @@ (T_array :> "array")

\* The tags in the order the registration block emplaces them.
RegistrationOrder ==
    << T_int32, T_float64, T_string, T_uint64, T_struct_value, T_blob, T_array >>

\* factory_impl.emplace(type, constructor): nothing changes when the key
\* has an entry.
emplace(reg, type) ==
    IF type \in DOMAIN reg THEN reg ELSE reg @@ (type :> RegisteredTypes[type])

\* if (factory_impl.empty()) { register ... }
populate(reg) == IF DOMAIN reg = {} THEN RegisteredTypes ELSE reg

\* factory_impl[type]: the entry, inserted empty when there is none.
registry_lookup(reg, type) ==
    IF type \in DOMAIN reg THEN reg ELSE reg @@ (type :> "function{}")

\* The lambda registered for array: the class chosen for a sub_type, or
\* "nullptr".
array_factory(sub_type) ==
    CASE sub_type = T_int32 -> "array<int32_t>"
      [] sub_type = T_float64 -> "array<double>"
      [] sub_type = T_string -> "array<std::string>"
      [] sub_type = T_uint64 -> "array<uint64_t>"
      [] sub_type = T_struct_value -> "array<argument_struct*>"
      [] OTHER -> "nullptr"

\* factory_impl[type](stream): the object allocated and the stream left.
\* cls = "nullptr" when the array lambda returns nullptr.
construct(entry, s) ==
    IF entry = "array"
    THEN LET sub == stream_read_unsigned(s, SizeofTag)
         IN  IF sub.st # "returned" THEN sub
             ELSE [st |-> "returned", cls |-> array_factory(sub.v), rest |-> sub.rest]
    ELSE [st |-> "returned", cls |-> entry, rest |-> s]

RECURSIVE serialize(_, _)
RECURSIVE read_children(_, _, _, _)
RECURSIVE read_struct_elements(_, _, _, _)

\* argument_struct::read_values: the children appended to values.
read_values(s, reg, values) ==
    LET size == stream_read_unsigned(s, SizeofSizeT)
    IN  IF size.st # "returned" THEN size
        ELSE read_children(size.rest, reg, LoopCount(size.v, size.rest), values)

\* The loop of read_values: values.emplace_back(serialize(stream)).
read_children(s, reg, n, acc) ==
    IF n = 0 THEN [st |-> "returned", v |-> acc, rest |-> s]
    ELSE LET r == serialize(s, reg)
         IN  IF r.st # "returned" THEN r
             ELSE read_children(r.rest, reg, n - 1, Append(acc, r.arg))

\* The loop of array::read_value for TValue = argument_struct*: a new
\* argument_struct, then its read_value (no tag, no name).
read_struct_elements(s, reg, n, acc) ==
    IF n = 0 THEN [st |-> "returned", v |-> acc, rest |-> s]
    ELSE LET r == read_values(s, reg, <<>>)
         IN  IF r.st # "returned" THEN r
             ELSE read_struct_elements(r.rest, reg, n - 1,
                      Append(acc, Arg("argument_struct", <<>>, r.v)))

\* argument_blob::read_value.
blob_read_value(s) ==
    LET size == stream_read_unsigned(s, SizeofUint32)
    IN  IF size.st # "returned" THEN size
        ELSE IF size.v = OutOfRange THEN ShortRead
        ELSE stream_read_raw(size.rest, size.v)

\* array::read_value.  A count larger than the number of bytes left is not
\* backed by the stream (every element takes at least two bytes):
\* reserve(size) either throws (std::bad_alloc, std::length_error) or
\* succeeds and the loop runs off the stream.  st = "reserve_unbacked"
\* stands for both.
array_read_value(cls, s, reg) ==
    LET size == stream_read_unsigned(s, SizeofSizeT)
    IN  IF size.st # "returned" THEN size
        ELSE IF size.v = OutOfRange \/ size.v > Len(size.rest)
        THEN [st |-> "reserve_unbacked"]
        ELSE IF TValueOf(cls) = "argument_struct*"
        THEN read_struct_elements(size.rest, reg, size.v, <<>>)
        ELSE read_elements(TValueOf(cls), size.rest, size.v, <<>>)

\* The virtual read_value of an object of class cls.
read_value(cls, s, reg) ==
    CASE cls \in GenericClasses -> stream_read(TValueOf(cls), s)
      [] cls = "argument_blob" -> blob_read_value(s)
      [] cls = "argument_struct" -> read_values(s, reg, <<>>)
      [] cls \in ArrayClasses -> array_read_value(cls, s, reg)

\* argument::read on a default-constructed object of class cls: the name,
\* then the payload.
argument_read(cls, s, reg) ==
    LET name == stream_read_string(s, <<>>)
    IN  IF name.st # "returned" THEN name
        ELSE LET val == read_value(cls, name.rest, reg)
             IN  IF val.st # "returned" THEN val
                 ELSE [st |-> "returned", arg |-> Arg(cls, name.v, val.v),
                       rest |-> val.rest]

(***************************************************************************)
(* serialize(stream) once the registry is populated.  Besides "returned"   *)
(* (arg is the object, rest the stream left) and "short_read":             *)
(*   "bad_function_call": the tag has no constructor; factory_impl[type]   *)
(*        inserts an empty std::function and calling it throws             *)
(*        std::bad_function_call (tag is the tag);                         *)
(*   "null_argument": the array lambda returned nullptr; what follows      *)
(*        depends on the build (assert(new_argument), or a call through    *)
(*        the null pointer);                                               *)
(*   "reserve_unbacked": see array_read_value.                             *)
(***************************************************************************)
serialize(s, reg) ==
    LET type == stream_read_unsigned(s, SizeofTag)
    IN  IF type.st # "returned" THEN type
        ELSE LET entry == registry_lookup(reg, type.v)[type.v]
             IN  IF entry = "function{}"
                 THEN [st |-> "bad_function_call", tag |-> type.v]
                 ELSE LET new_argument == construct(entry, type.rest)
                      IN  IF new_argument.st # "returned" THEN new_argument
                          ELSE IF new_argument.cls = "nullptr"
                          THEN [st |-> "null_argument"]
                          ELSE argument_read(new_argument.cls, new_argument.rest, reg)

\* argument::as<TValue>(): the payload when TValue is the stored type;
\* otherwise the bytes of the member are read through a TValue* (undefined
\* behaviour: a reinterpreted value, or a fault).
as(a, tvalue) ==
    IF tvalue = StoredType(a.cls)
    THEN {[st |-> "value", v |-> a.val]}
    ELSE {[st |-> "reinterpreted"], [st |-> "fault"]}

(***************************************************************************)
(* argument_struct: values is the vector of child pointers.  A pointer is  *)
(* an object identity in 1..MaxObjs; NULL is nullptr.  Obj(p) is the       *)
(* object p points to.                                                     *)
(***************************************************************************)
NULL == 0
Ptr == 1..MaxObjs

ObjName(p) == << 97 + (p % 2) >>

Obj(p) ==
    CASE p % 3 = 1 -> Arg("int32", ObjName(p), p)
      [] p % 3 = 2 -> Arg("string", ObjName(p), <<104, 104 + p>>)
      [] OTHER -> Arg("uint64", ObjName(p), 10 * p)

\* The loop of field() without its break: the last candidate of the name.
field_candidate_no_break(values, name) ==
    LET hits == {i \in 1..Len(values) : ObjName(values[i]) = name}
    IN  IF hits = {} THEN NULL
        ELSE values[CHOOSE i \in hits : \A j \in hits : i >= j]

\* The loop of field(): the first candidate whose name is `name`, or
\* nullptr.
field_candidate(values, name) ==
    LET hits == {i \in 1..Len(values) : ObjName(values[i]) = name}
    IN  IF hits = {} THEN NULL
        ELSE values[CHOOSE i \in hits : \A j \in hits : i <= j]

\* argument_struct::field<T>(name): arg->as<T>().  With arg == nullptr the
\* call goes through a null pointer (undefined behaviour: a fault, or a
\* reference to whatever is there).
field(values, tvalue, name) ==
    LET arg == field_candidate(values, name)
    IN  IF arg = NULL THEN {[st |-> "fault"], [st |-> "reinterpreted"]}
        ELSE as(Obj(arg), tvalue)

\* remove_if with the predicate negated (the children of another name are
\* the ones removed).
remove_if_negated(values, name) ==
    LET kept == SelectSeq(values, LAMBDA p : ObjName(p) = name)
    IN  [v |-> kept \o SubSeq(values, Len(kept) + 1, Len(values)),
         it |-> Len(kept) + 1]

\* std::remove_if(begin(values), end(values), name matches): the elements
\* that do not match are moved to the front in order; the positions from
\* the returned iterator on keep the pointers they held (a moved-from
\* pointer is unchanged).  it = Len + 1 is end(values).
remove_if(values, name) ==
    LET kept == SelectSeq(values, LAMBDA p : ObjName(p) # name)
    IN  [v |-> kept \o SubSeq(values, Len(kept) + 1, Len(values)),
         it |-> Len(kept) + 1]

\* values.erase(it).
erase(values, it) ==
    SubSeq(values, 1, it - 1) \o SubSeq(values, it + 1, Len(values))

\* argument_struct::release(const std::string&): the pointer returned and
\* the vector left.
release(values, name) ==
    LET r == remove_if(values, name)
    IN  IF r.it # Len(r.v) + 1
        THEN [res |-> r.v[r.it], values |-> erase(r.v, r.it)]
        ELSE [res |-> NULL, values |-> r.v]

\* std::remove(begin(values), end(values), in_argument): as remove_if, for
\* the elements equal to the pointer.
remove(values, in_argument) ==
    LET kept == SelectSeq(values, LAMBDA p : p # in_argument)
    IN  [v |-> kept \o SubSeq(values, Len(kept) + 1, Len(values)),
         it |-> Len(kept) + 1]

\* values.erase(end(values)): undefined behaviour.  The implementation
\* moves the range [end + 1, end) down and decrements the end pointer:
\* the move runs over memory outside the vector (a fault), or it moves
\* nothing and the last element is dropped from a non-empty vector.
erase_end(values) ==
    {[st |-> "fault", values |-> values]}
    \cup (IF values # <<>>
          THEN {[st |-> "returned", values |-> SubSeq(values, 1, Len(values) - 1)]}
          ELSE {})

\* argument_struct::release(argument*): how the call ends and the vector
\* it leaves.
release_ptr(values, in_argument) ==
    LET r == remove(values, in_argument)
    IN  IF r.it # Len(r.v) + 1
        THEN {[st |-> "returned", values |-> erase(r.v, r.it)]}
        ELSE erase_end(r.v)

(***************************************************************************)
(* struct_builder: values is its vector of pending children.  A struct is  *)
(* the record of its name and its child vector.                            *)
(***************************************************************************)
\* argument_struct(std::string&& in_name, std::vector<argument*>&& args).
argument_struct(in_name, args) == [name |-> in_name, values |-> args]

\* struct_builder::add(argument*), and add<TValue>(args...) with the new
\* object as in_argument: the vector left.
add(values, in_argument) ==
    IF in_argument # NULL THEN Append(values, in_argument) ELSE values

\* get() handing the constructor a copy of values instead of moving it.
get_copying(values, name) ==
    [res |-> argument_struct(name, values), values |-> values]

\* struct_builder::get(name): the struct returned and the vector left in
\* the builder (a vector that was move-constructed from is empty).
get(values, name) ==
    [res |-> argument_struct(name, values), values |-> <<>>]

\* ~struct_builder(): assert(values.empty()); the vector is then destroyed,
\* not the objects it points to.
destroy_builder(values, nd) ==
    IF values = <<>> THEN "destroyed"
    ELSE IF nd THEN "destroyed_leaking" ELSE "assert_failed"

(***************************************************************************)
(* The inputs the operations are run on.                                   *)
(***************************************************************************)
SeqsUpTo(S, n) == UNION {[1..k -> S] : k \in 0..n}

\* "a", "ab", "aba", ...
NameOfLen(n) == [i \in 1..n |-> IF i % 2 = 1 THEN 97 ELSE 98]
Names == {NameOfLen(n) : n \in 0..MaxNameLen} \cup {<<98>>}

\* "", "m", "mm", ...
StrOfLen(n) == [i \in 1..n |-> 109]
StringVals == {StrOfLen(n) : n \in 0..MaxStrLen}

Int32Vals == {-2147483647 - 1, -1, 555, 2147483647}
Uint64Vals == {0, 10, 2147483647}
\* The object representations of the doubles 0.0 and 555.0.
DoubleVals == {<<0, 0, 0, 0, 0, 0, 0, 0>>, <<0, 0, 0, 0, 0, 88, 129, 64>>}

ValsOf(cls) ==
    CASE cls = "int32" -> Int32Vals
      [] cls = "uint64" -> Uint64Vals
      [] cls = "float64" -> DoubleVals
      [] cls = "string" -> StringVals

Scalars ==
    {Arg(cls, n, v) : <<cls, n, v>> \in
        UNION {{c} \X Names \X ValsOf(c) : c \in GenericClasses}}

ElemsOf(cls) ==
    CASE cls = "array<int32_t>" -> {13, -14}
      [] cls = "array<uint64_t>" -> {0, 88}
      [] cls = "array<double>" -> DoubleVals
      [] cls = "array<std::string>" -> {<<>>, <<120>>, StrOfLen(MaxStrLen)}

ScalarArrayClasses == ArrayClasses \ {"array<argument_struct*>"}

ScalarArrays ==
    {Arg(cls, n, v) : <<cls, n, v>> \in
        UNION {{c} \X Names \X SeqsUpTo(ElemsOf(c), MaxArrayLen) :
                  c \in ScalarArrayClasses}}

Blobs ==
    {Arg("argument_blob", n, [i \in 1..k |-> 200 + i]) :
        <<n, k>> \in {<<>>, <<97>>} \X (0..2)}

\* Blobs whose size does not survive the cast to uint32_t.
LongBlobs ==
    {Arg("argument_blob", <<97>>, [i \in 1..k |-> 200 + i]) :
        k \in {U32Mod, U32Mod + 1}}

\* Children a struct is built from.
Leaves ==
    { Arg("int32", <<97>>, 1),
      Arg("string", <<120>>, <<104, 105>>),
      Arg("float64", <<97>>, <<0, 0, 0, 0, 0, 88, 129, 64>>),
      Arg("argument_blob", <<>>, <<7, 9>>),
      Arg("array<std::string>", <<98>>, <<<<>>, <<120>>>>) }

InnerStructs ==
    {Arg("argument_struct", n, v) : <<n, v>> \in
        {<<98>>, <<>>} \X SeqsUpTo({Arg("int32", <<97>>, 1),
                                    Arg("string", <<120>>, <<104, 105>>)}, 2)}

StructArrays ==
    {Arg("array<argument_struct*>", <<97>>, v) :
        v \in SeqsUpTo({Arg("argument_struct", <<>>, <<Arg("int32", <<97>>, 1)>>)}, 1)}

\* A struct in a struct, and an array in a struct in a struct.
NestedStructs ==
    { Arg("argument_struct", <<98>>, <<Arg("string", <<120>>, <<104, 105>>)>>),
      Arg("argument_struct", <<>>,
          <<Arg("argument_struct", <<97>>,
                <<Arg("array<int32_t>", <<98>>, <<13>>), Arg("int32", <<97>>, 1)>>)>>) }

ChildPool == Leaves \cup NestedStructs \cup StructArrays
                \cup {Arg("int32", NameOfLen(MaxNameLen), 1)}

Structs ==
    {Arg("argument_struct", n, v) : <<n, v>> \in
        {<<97>>, NameOfLen(MaxNameLen)} \X SeqsUpTo(ChildPool, MaxChildren)}

Args == Scalars \cup ScalarArrays \cup Blobs \cup InnerStructs \cup StructArrays
            \cup Structs \cup LongBlobs

\* The arguments written back to back: one of each kind, and two whose
\* length does not survive the cast of its prefix.
BatchValues ==
    { Arg("int32", <<97>>, 555),
      Arg("string", <<97, 98>>, StrOfLen(2)),
      Arg("argument_blob", <<>>, <<7, 9>>),
      Arg("array<int32_t>", <<98>>, <<13, -14>>),
      Arg("argument_struct", <<97>>,
          <<Arg("int32", <<97>>, 1), Arg("string", <<120>>, <<104, 105>>)>>),
      Arg("argument_struct", <<98>>,
          <<Arg("array<argument_struct*>", <<97>>, <<>>)>>),
      Arg("argument_blob", <<97>>, [i \in 1..U32Mod |-> 200 + i]),
      Arg("uint64", NameOfLen(U16Mod), 10) }

\* Bytes a peer may put on the stream: tags without a constructor, an
\* array of an element type without an array class, streams cut short.
RawInputs ==
    { <<T_file, 0, 0>>, <<T_count>>, <<9, 1>>,
      <<T_struct_value, 0, 0, 1, 0, 0, 0, 0, 0, 0, 0, T_file>>,
      <<T_array, T_blob, 0, 0>>, <<T_array, T_array>>, <<T_array, T_count, 1, 0, 97>>,
      <<>>, <<T_int32, 0, 0, 1>>, <<T_string, 1, 0>>, <<T_array>>,
      <<T_int32, 1, 0, 97, 43, 2, 0, 0, 7>> }

\* The types as<T> and field<T> are asked for.
AccessTypes ==
    {"int32_t", "uint64_t", "std::string", "std::vector<argument*>"}

\* The names field and release are called with ("z": no object has it).
LookupNames == {<<97>>, <<98>>, <<122>>}

\* Vectors of distinct child pointers.
ChildLists ==
    {v \in SeqsUpTo(Ptr, MaxObjs) : \A i, j \in 1..Len(v) : i # j => v[i] # v[j]}

(***************************************************************************)
(* The state.                                                              *)
(*   pc           where the calling program stands                         *)
(*   ndebug       whether the build defines NDEBUG (assert is a no-op)     *)
(*   arg          the argument constructed for writing                     *)
(*   stream       the unread bytes of the mock_stream                      *)
(*   calls        the stream.write calls made since the stream was new     *)
(*   factory_impl the static registry of serialize                         *)
(*   decoded      how the last serialize(stream) ended                     *)
(*   values       the child vector of the argument_struct under test       *)
(*   call         the last call on an object (as, field, release, add,     *)
(*                get, ...): its arguments, the vector before it (pre)     *)
(*                and what it gave (ret)                                   *)
(*   pending      the vector values of the struct_builder                  *)
(*   gets         the number of get() calls made on the struct_builder     *)
(*                (0 when there is no builder)                             *)
(*   held         the pointers the caller was handed back by a release     *)
(*   made         the objects that were given to the builder or the struct *)
(*                and have not been deleted                                *)
(*   batch        the arguments written back to back to the stream         *)
(*   results      how the serialize calls on that stream ended, in order   *)
(*   threads      for each thread of the concurrent first decode, where it *)
(*                stands in serialize                                      *)
(***************************************************************************)
VARIABLES pc, ndebug, arg, stream, calls, factory_impl, decoded, values, call,
          pending, gets, held, made, batch, results, threads

vars == <<pc, ndebug, arg, stream, calls, factory_impl, decoded, values, call,
          pending, gets, held, made, batch, results, threads>>

\* The state of the builder and of the ownership of the objects.
ownVars == <<pending, gets, held, made>>
\* The state of the back-to-back writes.
batchVars == <<batch, results>>

NoArg == [cls |-> "none"]
NoResult == [st |-> "none"]
NoCall == [op |-> "none"]
NoThreads == << >>

Init ==
    /\ pc = "start"
    /\ ndebug \in BOOLEAN
    /\ arg = NoArg
    /\ stream = <<>>
    /\ calls = <<>>
    /\ factory_impl = EmptyRegistry
    /\ decoded = NoResult
    /\ values = <<>>
    /\ call = NoCall
    /\ pending = <<>>
    /\ gets = 0
    /\ held = {}
    /\ made = {}
    /\ batch = <<>>
    /\ results = <<>>
    /\ threads = NoThreads

\* The calling program has not started its test yet.
Idle == pc = "start"

\* TClass arg(name, val) and a new mock_stream.
NewArg(a) ==
    /\ Idle
    /\ pc' = "constructed"
    /\ arg' = a
    /\ stream' = <<>>
    /\ calls' = <<>>
    /\ decoded' = NoResult
    /\ call' = NoCall
    /\ UNCHANGED <<ndebug, factory_impl, values, ownVars, batchVars, threads>>

\* arg.write(stream).
Write ==
    /\ pc = "constructed"
    /\ pc' = "written"
    /\ calls' = calls \o write(arg)
    /\ stream' = stream \o CallBytes(write(arg))
    /\ UNCHANGED <<ndebug, arg, factory_impl, decoded, values, call>>
    /\ UNCHANGED <<ownVars, batchVars, threads>>

\* A new mock_stream filled by stream.write(data, length).
WriteRaw(b) ==
    /\ Idle
    /\ pc' = "written"
    /\ arg' = NoArg
    /\ stream' = b
    /\ calls' = << Call("bytes", b) >>
    /\ decoded' = NoResult
    /\ call' = NoCall
    /\ UNCHANGED <<ndebug, factory_impl, values, ownVars, batchVars, threads>>

\* How a serialize that obtained a null new_argument ends: the assert
\* aborts, or under NDEBUG new_argument->read goes through a null pointer
\* (undefined behaviour: a fault, or a return from whatever ran).
NullArgumentOutcomes(nd) ==
    IF nd THEN {[st |-> "fault"], [st |-> "returned_garbage"]}
    ELSE {[st |-> "assert_failed"]}

\* How array::read_value ends on a count the stream does not back.
ReserveOutcomes == {[st |-> "bad_alloc"], [st |-> "short_read"]}

\* What the caller of serialize observes.
Outcomes(r, nd) ==
    CASE r.st = "returned" -> {[st |-> "returned", arg |-> r.arg]}
      [] r.st = "bad_function_call" -> {[st |-> "bad_function_call", tag |-> r.tag]}
      [] r.st = "null_argument" -> NullArgumentOutcomes(nd)
      [] r.st = "reserve_unbacked" -> ReserveOutcomes
      [] OTHER -> {[st |-> "short_read"]}

\* auto* deserialized = hope::proto::serialize(stream).
Serialize ==
    /\ pc = "written"
    /\ LET reg == populate(factory_impl)
           r == serialize(stream, reg)
       IN  /\ factory_impl' = IF r.st = "bad_function_call"
                              THEN registry_lookup(reg, r.tag) ELSE reg
           /\ stream' = IF r.st = "returned" THEN r.rest ELSE <<>>
           /\ decoded' \in Outcomes(r, ndebug)
    /\ pc' = "decoded"
    /\ UNCHANGED <<ndebug, arg, calls, values, call, ownVars, batchVars, threads>>

\* deserialized->as<T>().
As(tvalue) ==
    /\ pc = "decoded"
    /\ decoded.st = "returned"
    /\ pc' = "viewed"
    /\ \E ret \in as(decoded.arg, tvalue) :
          call' = [op |-> "as", tvalue |-> tvalue, ret |-> ret]
    /\ UNCHANGED <<ndebug, arg, stream, calls, factory_impl, decoded, values>>
    /\ UNCHANGED <<ownVars, batchVars, threads>>

\* argument_struct s(name, std::move(args)).
NewStruct(v) ==
    /\ Idle
    /\ pc' = "struct"
    /\ values' = v
    /\ made' = {v[i] : i \in 1..Len(v)}
    /\ held' = {}
    /\ UNCHANGED <<ndebug, arg, stream, calls, factory_impl, decoded, call>>
    /\ UNCHANGED <<pending, gets, batchVars, threads>>

\* s.field<T>(name).
Field(tvalue, name) ==
    /\ pc = "struct"
    /\ \E ret \in field(values, tvalue, name) :
          call' = [op |-> "field", tvalue |-> tvalue, name |-> name,
                   pre |-> values, ret |-> ret]
    /\ UNCHANGED <<pc, ndebug, arg, stream, calls, factory_impl, decoded, values>>
    /\ UNCHANGED <<ownVars, batchVars, threads>>

\* s.release(name).
Release(name) ==
    /\ pc = "struct"
    /\ values' = release(values, name).values
    /\ call' = [op |-> "release", name |-> name, pre |-> values,
                ret |-> release(values, name).res]
    /\ held' = held \cup ({release(values, name).res} \ {NULL})
    /\ UNCHANGED <<pc, ndebug, arg, stream, calls, factory_impl, decoded>>
    /\ UNCHANGED <<pending, gets, made, batchVars, threads>>

\* The pointers a vector holds.
Range(v) == {v[i] : i \in 1..Len(v)}

\* s.release(c).  The caller holds the reference c; when c was a child the
\* caller owns it from here on.
ReleasePtr(c) ==
    /\ pc = "struct"
    /\ \E r \in release_ptr(values, c) :
          /\ values' = r.values
          /\ call' = [op |-> "release_ptr", c |-> c, pre |-> values, ret |-> r.st]
          /\ pc' = IF r.st = "fault" THEN "faulted" ELSE pc
    /\ held' = IF c \in Range(values) THEN held \cup {c} ELSE held
    /\ UNCHANGED <<ndebug, arg, stream, calls, factory_impl, decoded>>
    /\ UNCHANGED <<pending, gets, made, batchVars, threads>>

\* auto builder = struct_builder::create().
Create ==
    /\ Idle
    /\ pc' = "builder"
    /\ pending' = <<>>
    /\ gets' = 0
    /\ UNCHANGED <<ndebug, arg, stream, calls, factory_impl, decoded, values, call>>
    /\ UNCHANGED <<held, made, batchVars, threads>>

\* builder.add(p), or builder.add<TValue>(...) allocating the object p.
\* The values given to a builder are distinct objects.
Add(p) ==
    /\ pc = "builder"
    /\ p # NULL => p \notin made
    /\ pending' = add(pending, p)
    /\ made' = made \cup ({p} \ {NULL})
    /\ call' = [op |-> "add", p |-> p, pre |-> pending]
    /\ UNCHANGED <<pc, ndebug, arg, stream, calls, factory_impl, decoded, values>>
    /\ UNCHANGED <<gets, held, batchVars, threads>>

\* auto* s = builder.get(name).
Get(name) ==
    /\ pc = "builder"
    /\ gets < MaxGets
    /\ pc' = "built"
    /\ values' = get(pending, name).res.values
    /\ pending' = get(pending, name).values
    /\ gets' = gets + 1
    /\ call' = [op |-> "get", name |-> name, pre |-> pending, nth |-> gets + 1,
                after |-> call.op, ret |-> get(pending, name).res]
    /\ UNCHANGED <<ndebug, arg, stream, calls, factory_impl, decoded>>
    /\ UNCHANGED <<held, made, batchVars, threads>>

\* delete s, for the struct the builder returned: ~argument_struct deletes
\* every child.  The builder is still there.
DestroyStruct ==
    /\ pc = "built"
    /\ pc' = "builder"
    /\ made' = made \ Range(values)
    /\ values' = <<>>
    /\ call' = [op |-> "~argument_struct", pre |-> values]
    /\ UNCHANGED <<ndebug, arg, stream, calls, factory_impl, decoded>>
    /\ UNCHANGED <<pending, gets, held, batchVars, threads>>

\* The builder goes out of scope: ~struct_builder().  nth is the number
\* of get() calls it served.
DestroyBuilder ==
    /\ pc \in {"builder", "built"}
    /\ call' = [op |-> "~struct_builder", after |-> call.op, pre |-> pending,
                nth |-> gets, ret |-> destroy_builder(pending, ndebug)]
    /\ pc' = IF destroy_builder(pending, ndebug) = "assert_failed" THEN "aborted"
             ELSE IF pc = "built" THEN "struct" ELSE "finished"
    /\ gets' = 0
    /\ UNCHANGED <<ndebug, arg, stream, calls, factory_impl, decoded, values>>
    /\ UNCHANGED <<pending, held, made, batchVars, threads>>

\* TClass a(...); a.write(stream), on the stream the arguments before it
\* were written to.
WriteNext(a) ==
    /\ pc \in {"start", "batch"}
    /\ Len(batch) < MaxBatch
    /\ pc' = "batch"
    /\ batch' = Append(batch, a)
    /\ calls' = calls \o write(a)
    /\ stream' = stream \o CallBytes(write(a))
    /\ UNCHANGED <<ndebug, arg, factory_impl, decoded, values, call>>
    /\ UNCHANGED <<ownVars, results, threads>>

\* serialize(stream) on that stream, once more while the calls before it
\* returned and fewer calls were made than arguments written.
SerializeNext ==
    /\ pc \in {"batch", "draining"}
    /\ Len(results) < Len(batch)
    /\ \A i \in 1..Len(results) : results[i].st = "returned"
    /\ LET reg == populate(factory_impl)
           r == serialize(stream, reg)
       IN  /\ factory_impl' = IF r.st = "bad_function_call"
                              THEN registry_lookup(reg, r.tag) ELSE reg
           /\ stream' = IF r.st = "returned" THEN r.rest ELSE <<>>
           /\ \E d \in Outcomes(r, ndebug) : results' = Append(results, d)
    /\ pc' = "draining"
    /\ UNCHANGED <<ndebug, arg, calls, decoded, values, call>>
    /\ UNCHANGED <<ownVars, batch, threads>>

Next ==
    \/ \E a \in Args : NewArg(a)
    \/ Write
    \/ \E b \in RawInputs : WriteRaw(b)
    \/ Serialize
    \/ \E t \in AccessTypes : As(t)
    \/ \E v \in ChildLists : NewStruct(v)
    \/ \E t \in AccessTypes, n \in LookupNames : Field(t, n)
    \/ \E n \in LookupNames : Release(n)
    \/ \E c \in Ptr : ReleasePtr(c)
    \/ Create
    \/ \E p \in Ptr \cup {NULL} : Add(p)
    \/ \E n \in LookupNames : Get(n)
    \/ DestroyStruct
    \/ DestroyBuilder
    \/ \E a \in BatchValues : WriteNext(a)
    \/ SerializeNext

Spec == Init /\ [][Next]_vars

(***************************************************************************)
(* The first serialize calls of several threads, each on a stream of its   *)
(* own.  factory_impl is a function-local static: its construction is      *)
(* synchronized by the language, the registration block and the lookup     *)
(* are plain code.  A thread stands at                                     *)
(*   "check":    before if (factory_impl.empty());                         *)
(*   "register": in the block, before its k-th emplace;                    *)
(*   "lookup":   before factory_impl[type], type being tag;                *)
(*   "done":     after it; seen is the set of tags that had an entry when  *)
(*               it looked, ret what the lookup gave;                      *)
(*   "fault":    stopped by a data race.                                   *)
(* Each container access is one step.  An access that is not ordered with *)
(* an access of another thread, one of the two modifying the container,    *)
(* is a data race (undefined behaviour): it takes effect as if it ran      *)
(* alone, or the thread faults.                                            *)
(***************************************************************************)
Threads == 1..NumThreads

\* The first tags of the streams the threads decode.
ThreadTags == {T_int32, T_array}

Thread(tag) ==
    [pc |-> "check", k |-> 0, tag |-> tag, registered |-> FALSE,
     seen |-> {}, ret |-> "none"]

InitThreads ==
    /\ pc = "concurrent"
    /\ ndebug = FALSE
    /\ arg = NoArg
    /\ stream = <<>>
    /\ calls = <<>>
    /\ factory_impl = EmptyRegistry
    /\ decoded = NoResult
    /\ values = <<>>
    /\ call = NoCall
    /\ pending = <<>>
    /\ gets = 0
    /\ held = {}
    /\ made = {}
    /\ batch = <<>>
    /\ results = <<>>
    /\ threads \in {[t \in Threads |-> Thread(tags[t])] : tags \in [Threads -> ThreadTags]}

\* Everything but the threads and the registry they share.
restVars ==
    <<pc, ndebug, arg, stream, calls, decoded, values, call, ownVars, batchVars>>

\* The next container access of thread t modifies the registry.
Writes(t) ==
    \/ threads[t].pc = "register"
    \/ threads[t].pc = "lookup" /\ threads[t].tag \notin DOMAIN factory_impl

\* Thread t is about to access the registry.
Accesses(t) == threads[t].pc \in {"check", "register", "lookup"}

\* The next access of thread t and the next access of another thread are
\* not ordered and one of them modifies: a data race.
Races(t) ==
    \E u \in Threads \ {t} : Accesses(u) /\ (Writes(t) \/ Writes(u))

\* The access of thread t takes part in a data race and the thread stops.
Fault(t) ==
    /\ Races(t)
    /\ threads' = [threads EXCEPT ![t].pc = "fault"]
    /\ UNCHANGED factory_impl

\* if (factory_impl.empty())
CheckEmpty(t) ==
    /\ threads[t].pc = "check"
    /\ \/ /\ threads' = [threads EXCEPT ![t] =
                 IF DOMAIN factory_impl = {}
                 THEN [@ EXCEPT !.pc = "register", !.k = 1, !.registered = TRUE]
                 ELSE [@ EXCEPT !.pc = "lookup"]]
          /\ UNCHANGED factory_impl
       \/ Fault(t)
    /\ UNCHANGED restVars

\* The k-th emplace of the registration block.
Register(t) ==
    /\ threads[t].pc = "register"
    /\ \/ /\ factory_impl' = emplace(factory_impl, RegistrationOrder[threads[t].k])
          /\ threads' = [threads EXCEPT ![t] =
                 IF @.k = Len(RegistrationOrder)
                 THEN [@ EXCEPT !.pc = "lookup"]
                 ELSE [@ EXCEPT !.k = @ + 1]]
       \/ Fault(t)
    /\ UNCHANGED restVars

\* factory_impl[type](stream).
Lookup(t) ==
    /\ threads[t].pc = "lookup"
    /\ \/ /\ factory_impl' = registry_lookup(factory_impl, threads[t].tag)
          /\ threads' = [threads EXCEPT ![t] =
                 [@ EXCEPT !.pc = "done",
                           !.seen = DOMAIN factory_impl,
                           !.ret = IF threads[t].tag \in DOMAIN factory_impl
                                   THEN factory_impl[threads[t].tag]
                                   ELSE "bad_function_call"]]
       \/ Fault(t)
    /\ UNCHANGED restVars

NextThreads ==
    \E t \in Threads : CheckEmpty(t) \/ Register(t) \/ Lookup(t)

SpecThreads == InitThreads /\ [][NextThreads]_vars

(***************************************************************************)
(* Vocabulary of the properties.                                           *)
(***************************************************************************)
\* The bytes the stream held when serialize was called.
Input == CallBytes(calls)

\* serialize has been called on the stream arg was written to.
Decoded == pc \in {"decoded", "viewed"} /\ arg # NoArg

\* A string whose size survives the cast to uint16_t.
FitsPrefix(str) == Len(str) < U16Mod

\* The positions of the children of vector v that carry the name.
Carriers(v, name) == {i \in 1..Len(v) : ObjName(v[i]) = name}

\* The lowest insertion index among them.
FirstCarrier(v, name) ==
    CHOOSE i \in Carriers(v, name) : \A j \in Carriers(v, name) : i <= j

\* The vector v without position i.
Without(v, i) == [k \in 1..(Len(v) - 1) |-> IF k < i THEN v[k] ELSE v[k + 1]]

\* What the caller of serialize holds is an object of the class, the type
\* tag and the name of a, whose payload read as its stored type is a's.
SameAs(d, a) ==
    /\ d.st = "returned"
    /\ d.arg.cls = a.cls
    /\ d.arg.type = a.type
    /\ d.arg.name = a.name
    /\ as(d.arg, StoredType(a.cls)) = {[st |-> "value", v |-> a.val]}

(***************************************************************************)
(* C1, as stated: for every scalar variant, every name and every value,    *)
(* write to an empty stream and then serialize yields an argument of the   *)
(* same class, type tag, name and payload.                                 *)
(***************************************************************************)
C1_ScalarRoundTripAnyLength ==
    (Decoded /\ arg.cls \in GenericClasses) => SameAs(decoded, arg)

(***************************************************************************)
(* C1, amended: the round trip of a scalar holds when the name, and the    *)
(* value of a string, are shorter than 2^16 bytes (U16Mod in the model),   *)
(* the range of the uint16_t length prefix.                                *)
(***************************************************************************)
C1_ScalarRoundTrip ==
    (/\ Decoded
     /\ arg.cls \in GenericClasses
     /\ FitsPrefix(arg.name)
     /\ arg.cls = "string" => FitsPrefix(arg.val))
    => SameAs(decoded, arg)

C1_Witness ==
    /\ Decoded
    /\ arg.cls = "string"
    /\ Len(arg.name) = U16Mod - 1
    /\ Len(arg.val) = U16Mod - 1
    /\ SameAs(decoded, arg)

(***************************************************************************)
(* C2, as stated: for every scalar element type, every name and every      *)
(* sequence, the array written and decoded has the tag array, the array    *)
(* class of the element type, the name and the same elements in order.     *)
(***************************************************************************)
C2_ArrayRoundTripAnyLength ==
    (Decoded /\ arg.cls \in ScalarArrayClasses)
    => /\ SameAs(decoded, arg)
       /\ decoded.arg.type = T_array
       /\ Len(decoded.arg.val) = Len(arg.val)
       /\ \A i \in 1..Len(arg.val) : decoded.arg.val[i] = arg.val[i]

(***************************************************************************)
(* C2, amended: the round trip of an array of scalars holds when the name, *)
(* and every element of an array of strings, are shorter than 2^16 bytes.  *)
(***************************************************************************)
C2_ArrayRoundTrip ==
    (/\ Decoded
     /\ arg.cls \in ScalarArrayClasses
     /\ FitsPrefix(arg.name)
     /\ arg.cls = "array<std::string>"
           => \A i \in 1..Len(arg.val) : FitsPrefix(arg.val[i]))
    => /\ SameAs(decoded, arg)
       /\ decoded.arg.type = T_array
       /\ Len(decoded.arg.val) = Len(arg.val)
       /\ \A i \in 1..Len(arg.val) : decoded.arg.val[i] = arg.val[i]

C2_Witness ==
    /\ Decoded
    /\ arg.cls = "array<int32_t>"
    /\ Len(arg.val) = MaxArrayLen
    /\ arg.val[1] # arg.val[2]
    /\ Len(arg.name) > 0
    /\ SameAs(decoded, arg)

(***************************************************************************)
(* C3: a struct with children of mixed variants, a nested struct and a     *)
(* nested array among them, written and decoded, is a struct of the same   *)
(* name whose children are, in order and recursively, those written.  The  *)
(* claim is taken here only on structs whose every name and string fits    *)
(* its length prefix, so that what refutes it is not a wrapped length.     *)
(***************************************************************************)
RECURSIVE InRange(_)
InRange(a) ==
    /\ FitsPrefix(a.name)
    /\ a.cls = "string" => FitsPrefix(a.val)
    /\ a.cls = "array<std::string>" => \A i \in 1..Len(a.val) : FitsPrefix(a.val[i])
    /\ a.cls = "argument_blob" => Len(a.val) < U32Mod
    /\ a.cls \in {"argument_struct", "array<argument_struct*>"}
          => \A i \in 1..Len(a.val) : InRange(a.val[i])

HasNestedStructAndArray(a) ==
    /\ a.cls = "argument_struct"
    /\ \E i \in 1..Len(a.val) : a.val[i].cls = "argument_struct"
    /\ \E i \in 1..Len(a.val) : a.val[i].cls \in ArrayClasses

C3_StructRoundTrip ==
    (Decoded /\ HasNestedStructAndArray(arg) /\ InRange(arg))
    => (decoded.st = "returned" /\ decoded.arg = arg)

(***************************************************************************)
(* C4: a write() of a non-array argument hands the stream the 1-byte type  *)
(* tag, then the name, then the payload and nothing else; a write() of an  *)
(* array hands it the array tag, then the element-type tag, then the name, *)
(* then the payload.                                                       *)
(***************************************************************************)
IsTagCall(c, tag) == c.t = "e_argument_type" /\ c.b = <<tag>>

IsNameCall(c, name) ==
    /\ c.t = "std::string"
    /\ Len(c.b) = SizeofUint16 + Len(name)
    /\ SubSeq(c.b, SizeofUint16 + 1, Len(c.b)) = name

C4_WriteOrder ==
    (pc = "written" /\ arg # NoArg)
    => /\ stream = CallBytes(calls)
       /\ IF arg.cls \in ArrayClasses
          THEN /\ Len(calls) >= 3
               /\ IsTagCall(calls[1], T_array)
               /\ IsTagCall(calls[2], get_type(TValueOf(arg.cls)))
               /\ IsNameCall(calls[3], arg.name)
               /\ SubSeq(calls, 4, Len(calls)) = write_value(arg)
          ELSE /\ Len(calls) >= 2
               /\ IsTagCall(calls[1], TypeOfClass(arg.cls))
               /\ IsNameCall(calls[2], arg.name)
               /\ SubSeq(calls, 3, Len(calls)) = write_value(arg)

C4_Witness ==
    /\ pc = "written"
    /\ arg.cls = "array<std::string>"
    /\ Len(arg.name) > 0
    /\ Len(arg.val) > 0
    /\ Len(calls) = 4 + Len(arg.val)

(***************************************************************************)
(* C5: when serialize reads a type tag that has no constructor in the      *)
(* registry, it reports UnknownTypeTag to its caller and invokes no        *)
(* constructor.                                                            *)
(***************************************************************************)
C5_UnknownTagReported ==
    (/\ pc = "decoded"
     /\ Len(Input) >= SizeofTag
     /\ Input[1] \notin DOMAIN RegisteredTypes)
    => decoded.st = "UnknownTypeTag"

(***************************************************************************)
(* C6: as<T>() with T other than the stored payload type fails with        *)
(* TypeMismatch and never gives the payload reinterpreted.                 *)
(***************************************************************************)
C6_TypeMismatchReported ==
    (call.op = "as" /\ call.tvalue # StoredType(decoded.arg.cls))
    => call.ret.st = "TypeMismatch"

(***************************************************************************)
(* C7: field<T>(name), for a name that some child carries, leaves the      *)
(* child vector as it was and, T being the stored type of the first child  *)
(* of that name, returns that child's payload (so a second call returns    *)
(* the same).                                                              *)
(***************************************************************************)
C7_FieldFirstMatch ==
    (call.op = "field" /\ Carriers(call.pre, call.name) # {})
    => /\ values = call.pre
       /\ LET first == Obj(call.pre[FirstCarrier(call.pre, call.name)])
          IN  call.tvalue = StoredType(first.cls)
                 => call.ret = [st |-> "value", v |-> first.val]

C7_Witness ==
    /\ call.op = "field"
    /\ Cardinality(Carriers(call.pre, call.name)) >= 2
    /\ FirstCarrier(call.pre, call.name) > 1
    /\ call.ret.st = "value"

(***************************************************************************)
(* C8: field<T>(name), for a name that no child carries, fails with        *)
(* FieldNotFound and does not go through an absent child.                  *)
(***************************************************************************)
C8_FieldNotFoundReported ==
    (call.op = "field" /\ Carriers(call.pre, call.name) = {})
    => call.ret.st = "FieldNotFound"

(***************************************************************************)
(* C9: release(name), for a name that some child carries, returns the      *)
(* first child of that name and leaves the vector without that one         *)
(* element, all others in their order.                                     *)
(***************************************************************************)
C9_ReleaseFirstMatch ==
    (call.op = "release" /\ Carriers(call.pre, call.name) # {})
    => /\ call.ret = call.pre[FirstCarrier(call.pre, call.name)]
       /\ values = Without(call.pre, FirstCarrier(call.pre, call.name))

(***************************************************************************)
(* C10: release(name), for a name that no child carries, returns nullptr   *)
(* and leaves the child vector unchanged in content and order.             *)
(***************************************************************************)
C10_ReleaseMissing ==
    (call.op = "release" /\ Carriers(call.pre, call.name) = {})
    => (call.ret = NULL /\ values = call.pre)

C10_Witness ==
    /\ call.op = "release"
    /\ Carriers(call.pre, call.name) = {}
    /\ Len(call.pre) >= 2
    /\ call.ret = NULL

(***************************************************************************)
(* C11: release(c), for a child reference c, removes exactly the child     *)
(* identical to c and leaves every other child, those of the same name     *)
(* too, in the original order; for a c that is not a child it returns      *)
(* with the child vector unchanged (it does not erase at the end).         *)
(***************************************************************************)
C11_ReleaseByIdentity ==
    call.op = "release_ptr"
    => /\ call.ret = "returned"
       /\ values = SelectSeq(call.pre, LAMBDA p : p # call.c)
       /\ call.c \notin Range(call.pre) => values = call.pre

(***************************************************************************)
(* C12: add(p) appends p to the pending vector and add(nullptr) changes    *)
(* nothing; get(name) returns a struct named name whose children are the   *)
(* pending vector in insertion order and leaves the pending vector empty,  *)
(* so that a get() that follows with no add in between returns a struct    *)
(* with no children, and the destructor of the builder, run after a get(), *)
(* finds its assertion satisfied.                                          *)
(***************************************************************************)
C12_BuildMovesPending ==
    /\ call.op = "add"
          => pending = (IF call.p = NULL THEN call.pre ELSE Append(call.pre, call.p))
    /\ call.op = "get"
          => /\ call.ret = [name |-> call.name, values |-> call.pre]
             /\ values = call.pre
             /\ pending = <<>>
             /\ call.after = "~argument_struct" => call.ret.values = <<>>
    /\ (call.op = "~struct_builder" /\ call.after = "get")
          => call.ret = "destroyed"

C12_Witness ==
    /\ call.op = "~struct_builder"
    /\ call.after = "get"
    /\ call.ret = "destroyed"
    /\ ~ndebug
    /\ call.nth = 2
    /\ Len(values) >= 2

(***************************************************************************)
(* C13: in every state reached by add, get, release(name) and release(c)   *)
(* on distinct values, every value has exactly one owner: it is once in    *)
(* the pending vector of the builder, or once in the child vector of the   *)
(* struct, or in the hands of the caller, and in one of them only.         *)
(***************************************************************************)
Count(v, p) == Cardinality({i \in 1..Len(v) : v[i] = p})

Owners(p) ==
    Count(pending, p) + Count(values, p) + (IF p \in held THEN 1 ELSE 0)

C13_SingleOwner ==
    pc \in {"builder", "built", "struct"} => \A p \in made : Owners(p) = 1

(***************************************************************************)
(* C14: the registry is populated by the first serialize call and never    *)
(* changes afterwards: after any serialize calls, those that read a tag    *)
(* without a constructor included, its entries are the seven installed by  *)
(* the population.                                                         *)
(***************************************************************************)
C14_RegistryImmutable ==
    factory_impl # EmptyRegistry => factory_impl = RegisteredTypes

(***************************************************************************)
(* C16: when the stream ends inside a field serialize expects (tag, name   *)
(* length, name bytes, count or payload), serialize reports                *)
(* TruncatedStream to its caller.  Taken on streams that hold the whole   *)
(* tag byte at least, so that the field cut short is a later one.          *)
(***************************************************************************)
C16_TruncatedReported ==
    (/\ pc = "decoded"
     /\ batch = <<>>
     /\ Len(Input) >= SizeofTag
     /\ serialize(Input, RegisteredTypes).st = "short_read")
    => decoded.st = "TruncatedStream"

(***************************************************************************)
(* C17: when serialize reads the array tag followed by an element-type tag *)
(* other than int32, uint64, float64, string and struct, it reports        *)
(* UnsupportedElementType to its caller (and calls read() on no absent     *)
(* object).                                                                *)
(***************************************************************************)
SupportedElementTypes ==
    {T_int32, T_uint64, T_float64, T_string, T_struct_value}

C17_UnsupportedElementReported ==
    (/\ pc = "decoded"
     /\ batch = <<>>
     /\ Len(Input) >= 2 * SizeofTag
     /\ Input[1] = T_array
     /\ Input[2] \notin SupportedElementTypes)
    => decoded.st = "UnsupportedElementType"

(***************************************************************************)
(* C18: write() of an array of structs emits the struct tag as the         *)
(* element-type tag, a tag for which the array constructor of serialize    *)
(* has a class, and each element as its field list only; serialize then    *)
(* returns an array of structs with as many elements, the i-th with the    *)
(* children of the i-th element written.  Taken on arrays whose names and  *)
(* strings fit their length prefixes.                                      *)
(***************************************************************************)
C18_StructArrayRoundTrip ==
    (Decoded /\ arg.cls = "array<argument_struct*>" /\ InRange(arg))
    => /\ IsTagCall(calls[2], T_struct_value)
       /\ array_factory(Unsigned(calls[2].b)) # "nullptr"
       /\ SubSeq(calls, 4, Len(calls))
             = << Call("size_t", ToBytes(Len(arg.val), SizeofSizeT)) >>
               \o Flatten([i \in 1..Len(arg.val) |-> write_values(arg.val[i].val)])
       /\ decoded.st = "returned"
       /\ decoded.arg.cls = "array<argument_struct*>"
       /\ Len(decoded.arg.val) = Len(arg.val)
       /\ \A i \in 1..Len(arg.val) : decoded.arg.val[i].val = arg.val[i].val

(***************************************************************************)
(* C20: for every blob, whatever its length, the uint32_t length prefix    *)
(* write() emits is the number of payload bytes written after it, and      *)
(* serialize reads back as many bytes as were written.                     *)
(***************************************************************************)
C20_BlobPrefixIsLength ==
    (pc \in {"written", "decoded", "viewed"} /\ arg.cls = "argument_blob")
    => /\ Len(calls) = 4
       /\ calls[3].t = "uint32_t"
       /\ calls[4].t = "bytes"
       /\ Unsigned(calls[3].b) = Len(calls[4].b)
       /\ Decoded => /\ decoded.st = "returned"
                     /\ Len(decoded.arg.val) = Len(arg.val)

(***************************************************************************)
(* C19: serialize consumes exactly the bytes one write() produced: for     *)
(* arguments v1..vn written back to back to one stream, the i-th of n      *)
(* serialize calls returns an argument equal to vi, and after the n-th     *)
(* the stream holds no unread byte.  Taken on arguments whose names and    *)
(* strings fit the uint16_t length prefix, so that what refutes it is not  *)
(* the range of that prefix.                                               *)
(***************************************************************************)
RECURSIVE PrefixesFit(_)
PrefixesFit(a) ==
    /\ FitsPrefix(a.name)
    /\ a.cls = "string" => FitsPrefix(a.val)
    /\ a.cls = "array<std::string>" => \A i \in 1..Len(a.val) : FitsPrefix(a.val[i])
    /\ a.cls \in {"argument_struct", "array<argument_struct*>"}
          => \A i \in 1..Len(a.val) : PrefixesFit(a.val[i])

C19_BackToBack ==
    (pc = "draining" /\ \A i \in 1..Len(batch) : PrefixesFit(batch[i]))
    => /\ \A i \in 1..Len(results) :
             results[i].st = "returned" /\ results[i].arg = batch[i]
       /\ Len(results) = Len(batch) => stream = <<>>

(***************************************************************************)
(* C15: when several threads make their first serialize calls              *)
(* concurrently, the registration block runs once, no thread is inside it  *)
(* while another is at its lookup, and no thread looks a tag up in an      *)
(* empty or partly populated registry.                                     *)
(***************************************************************************)
C15_InitOnceExclusive ==
    /\ Cardinality({t \in Threads : threads[t].registered}) <= 1
    /\ \A t, u \in Threads :
          ~(threads[t].pc = "register" /\ threads[u].pc = "lookup")
    /\ \A t \in Threads :
          threads[t].pc = "done" => DOMAIN RegisteredTypes \subseteq threads[t].seen

=============================================================================
